---------------------------- MODULE Spec2Model ----------------------------
(***************************************************************************)
(* Payment gateway of src/src/main.rs: a vendor registry                   *)
(* (Arc<RwLock<Vec<Vendor>>>) with the handlers list and insert, and the   *)
(* handler buy that authorizes a transfer against the registry and drives  *)
(* the ledger client through blockhash, submission and confirmation.       *)
(*                                                                         *)
(* Rust Strings that the code parses or formats (wallet_id, vendor,        *)
(* buyer_pair, error messages) are sequences of one-character strings.     *)
(***************************************************************************)
EXTENDS Integers, Sequences, FiniteSets, TLC

(***************************************************************************)
(* Bounds of the model.                                                    *)
(***************************************************************************)
MaxBuys == 2
MaxInserts == 2
MaxLists == 1
MaxPolls == 2
\* The insert requests in the specifications with fairness.
FairInserts == 1
\* The list and buy requests in the specification of the registry.
RegistryLists == 2
RegistryBuys == 1
\* The threads of the runtime in the specification of the runtime.
RuntimeThreads == 2

(***************************************************************************)
(* Strings.                                                                *)
(***************************************************************************)
Repeat(c, n) == [i \in 1..n |-> c]

Base58Alphabet ==
  <<"1", "2", "3", "4", "5", "6", "7", "8", "9", "A", "B", "C", "D", "E", "F",
    "G", "H", "J", "K", "L", "M", "N", "P", "Q", "R", "S", "T", "U", "V", "W",
    "X", "Y", "Z", "a", "b", "c", "d", "e", "f", "g", "h", "i", "j", "k", "m",
    "n", "o", "p", "q", "r", "s", "t", "u", "v", "w", "x", "y", "z">>

\* Length in bytes of an ed25519 public key / ledger address.
PUBKEY_BYTES == 32
\* Longest base58 text of a 32-byte address.
MAX_BASE58_LEN == 44
\* Length in bytes of an ed25519 keypair (secret key followed by public key).
KEYPAIR_LENGTH == 64

\* Value of a base58 digit, -1 for a character outside the alphabet.
Base58Digit(c) ==
  IF \E i \in 1..Len(Base58Alphabet) : Base58Alphabet[i] = c
  THEN (CHOOSE i \in 1..Len(Base58Alphabet) : Base58Alphabet[i] = c) - 1
  ELSE -1

\* The decoder keeps the number as digits of base 2^24, least significant
\* first (three bytes per digit, so that every product fits 32 bits).
LIMB == 16777216

\* One step of the decoder: limbs := limbs * 58 + carry, from digit i on.
RECURSIVE MulAdd58(_, _, _)
MulAdd58(limbs, i, carry) ==
  IF i > Len(limbs)
  THEN IF carry = 0 THEN limbs ELSE Append(limbs, carry)
  ELSE LET v == limbs[i] * 58 + carry
       IN  MulAdd58([limbs EXCEPT ![i] = v % LIMB], i + 1, v \div LIMB)

\* The base58 digits of s from position i on, folded into acc.
RECURSIVE DecodeDigits(_, _, _)
DecodeDigits(s, i, acc) ==
  IF Len(acc) >= 0 /\ i > Len(s) THEN acc
  ELSE DecodeDigits(s, i + 1, MulAdd58(acc, 1, Base58Digit(s[i])))

\* Number of bytes of a value below 2^24.
ByteLen(v) == IF v = 0 THEN 0 ELSE IF v < 256 THEN 1 ELSE IF v < 65536 THEN 2 ELSE 3

\* The bytes of the number, most significant first, without leading zeros.
BytesOf(limbs) ==
  IF limbs = <<>> THEN <<>>
  ELSE LET n == 3 * (Len(limbs) - 1) + ByteLen(limbs[Len(limbs)])
           byte(j) == LET l == limbs[(j \div 3) + 1]
                          r == j % 3
                      IN  IF r = 0 THEN l % 256
                          ELSE IF r = 1 THEN (l \div 256) % 256
                          ELSE l \div 65536
       IN  [j \in 1..n |-> byte(n - j)]

RECURSIVE LeadingOnes(_, _)
LeadingOnes(s, i) ==
  IF i <= Len(s) /\ s[i] = "1" THEN 1 + LeadingOnes(s, i + 1) ELSE 0

\* bs58::decode(s).into_vec(): the bytes (big endian), or an error when a
\* character is not a base58 digit.  Each leading "1" is a leading zero byte.
Bs58Decode(s) ==
  IF \E i \in 1..Len(s) : Base58Digit(s[i]) < 0
  THEN [ok |-> FALSE, bytes |-> <<>>]
  ELSE [ok |-> TRUE,
        bytes |-> Repeat(0, LeadingOnes(s, 1)) \o BytesOf(DecodeDigits(s, 1, <<>>))]

Chars_WrongSize ==
  <<"S", "t", "r", "i", "n", "g", " ", "i", "s", " ", "t", "h", "e", " ",
    "w", "r", "o", "n", "g", " ", "s", "i", "z", "e">>

Chars_Invalid ==
  <<"I", "n", "v", "a", "l", "i", "d", " ", "B", "a", "s", "e", "5", "8", " ",
    "s", "t", "r", "i", "n", "g">>

Chars_NotWhitelisted ==
  <<" ", "i", "s", " ", "n", "o", "t", " ", "w", "h", "i", "t", "e", "l", "i",
    "s", "t", "e", "d">>

\* Variant: a parser that takes only the texts of the greatest length.
PubkeyFullLengthOnly(s) ==
  IF Len(s) # MAX_BASE58_LEN
  THEN [ok |-> FALSE, err |-> Chars_WrongSize]
  ELSE LET d == Bs58Decode(s)
       IN  IF ~d.ok THEN [ok |-> FALSE, err |-> Chars_Invalid]
           ELSE IF Len(d.bytes) # PUBKEY_BYTES
                THEN [ok |-> FALSE, err |-> Chars_WrongSize]
                ELSE [ok |-> TRUE, key |-> d.bytes]
\* Pubkey::from_str(&params.vendor): Ok(address bytes), or Err(ParsePubkeyError)
\* whose Display text is the message.
Pubkey_from_str(s) ==
  IF Len(s) > MAX_BASE58_LEN
  THEN [ok |-> FALSE, err |-> Chars_WrongSize]
  ELSE LET d == Bs58Decode(s)
       IN  IF ~d.ok THEN [ok |-> FALSE, err |-> Chars_Invalid]
           ELSE IF Len(d.bytes) # PUBKEY_BYTES
                THEN [ok |-> FALSE, err |-> Chars_WrongSize]
                ELSE [ok |-> TRUE, key |-> d.bytes]

\* Keypair::from_base58_string(&params.buyer_pair) returns a Keypair, not a
\* Result: it unwraps the base58 decoding and the keypair construction, so a
\* string that is not the base58 text of a 64-byte keypair panics.  (The
\* construction also rejects bytes whose public half is no curve point; the
\* 64 zero bytes of ZeroKeypair pass that test, and it is not modelled.)
Keypair_from_base58_string(s) ==
  LET d == Bs58Decode(s)
  IN  IF d.ok /\ Len(d.bytes) = KEYPAIR_LENGTH
      THEN [panic |-> FALSE, key |-> d.bytes]
      ELSE [panic |-> TRUE]

Chars_ClientError ==
  <<"R", "P", "C", " ", "r", "e", "s", "p", "o", "n", "s", "e", " ",
    "e", "r", "r", "o", "r">>

(***************************************************************************)
(* Inputs of the requests.                                                 *)
(***************************************************************************)
V1 == <<"V", "1">>
V2 == <<"V", "2">>
SystemProgramId == Repeat("1", PUBKEY_BYTES)
ZeroKeypair == Repeat("1", KEYPAIR_LENGTH)
BadPair == <<"b", "a", "d">>

\* struct Vendor { wallet_id, name, address, services }
VendorInputs ==
  { [wallet_id |-> V1, name |-> "Acme", address |-> "", services |-> <<>>],
    [wallet_id |-> SystemProgramId, name |-> "Bolt", address |-> "1 Main St",
     services |-> <<"delivery", "repair">>],
    [wallet_id |-> V1, name |-> "Acme Two", address |-> "",
     services |-> <<"repair">>] }

\* struct BuyParams { lamports, vendor, buyer_pair }
BuyInputs ==
  { [lamports |-> 100, vendor |-> SystemProgramId, buyer_pair |-> ZeroKeypair],
    [lamports |-> 100, vendor |-> SystemProgramId, buyer_pair |-> BadPair],
    [lamports |-> 100, vendor |-> V1, buyer_pair |-> ZeroKeypair],
    [lamports |-> 100, vendor |-> V1, buyer_pair |-> BadPair],
    [lamports |-> 100, vendor |-> V2, buyer_pair |-> ZeroKeypair] }

\* What the two parsers of buy return for each request of BuyInputs.
Parsed ==
  [p \in BuyInputs |->
     [from_keypair |-> Keypair_from_base58_string(p.buyer_pair),
      to |-> Pubkey_from_str(p.vendor)]]

VARIABLES
  vendors,   \* the Vec<Vendor> inside the RwLock of SharedVendors
  lock,      \* the RwLock: number of read guards alive, write guard alive
  buys,      \* the buy requests, in order of arrival
  lists,     \* the list requests, in order of arrival
  inserts,   \* the insert requests, in order of arrival
  ledger,    \* the ledger behind RpcClient: submitted transactions by signature
  subscriber \* the global tracing subscriber: the most verbose level it enables

vars == <<vendors, lock, buys, lists, inserts, ledger, subscriber>>

(***************************************************************************)
(* std::sync::RwLock: many readers or one writer.                          *)
(***************************************************************************)
CanRead(l) == ~l.writer

\* Variant: a writer that does not wait for the read guards to drop.
WriterIgnoresReaders(l) == ~l.writer
CanWrite(l) == ~l.writer /\ l.readers = 0

ReadGuard(l) == [l EXCEPT !.readers = @ + 1]
DropReadGuard(l) == [l EXCEPT !.readers = @ - 1]
WriteGuard(l) == [l EXCEPT !.writer = TRUE]
\* Variant: a write guard that is never dropped.
WriteGuardKept(l) == l
DropWriteGuard(l) == [l EXCEPT !.writer = FALSE]

(***************************************************************************)
(* Registry operations.                                                    *)
(***************************************************************************)
\* Variants: an insertion at the front; a registry that keeps the latest
\* vendor only; an insertion that skips a wallet_id already stored.
PushFront(vs, v) == <<v>> \o vs
PushOverwrites(vs, v) == <<v>>
PushUnlessStored(vs, v) ==
  IF \E k \in 1..Len(vs) : vs[k].wallet_id = v.wallet_id THEN vs
  ELSE Append(vs, v)
\* vendors.write().unwrap().push(input)
Push(vs, v) == Append(vs, v)

\* Variant: a check that every vendor string passes.
AnyVendor(vs, w) == TRUE
\* .iter().any(|v| v.wallet_id == params.vendor)
Contains(vs, w) == \E k \in 1..Len(vs) : vs[k].wallet_id = w

\* Variant: a BuyState that owns a copy of the Vec made in main(), when the
\* registry was empty.
DetachedCopy(shared) == <<>>
\* BuyState.vendors is vendors.clone() of the Arc: the same Vec, not a copy.
BuyStateVendors(shared) == shared

\* A record whose write was not finished when it was read.
Partial(v) == [v EXCEPT !.name = "<uninitialized>", !.services = <<>>]

\* Vec::clone under the read guard.  snap is the Vec when the copy began, now
\* the Vec when it ends.  They differ only when a push ran during the copy,
\* which is a data race: the copy may then hold either state or a torn one.
CloneResults(snap, now) ==
  IF now = snap THEN {snap}
  ELSE {snap, now}
       \cup {Append(snap, Partial(now[k])) : k \in 1..Len(now)}
       \cup {[k \in 1..Len(snap) |-> Partial(snap[k])]}

(***************************************************************************)
(* Responses.                                                              *)
(***************************************************************************)
NoResponse == [status |-> 0, body |-> "none", error |-> <<>>]
\* Ok(()) : 200 with an empty body
OkEmpty == [status |-> 200, body |-> "empty", error |-> <<>>]
\* impl IntoResponse for Error: 500 with Json(S { error: self.0.to_string() })
ErrorResponse(msg) == [status |-> 500, body |-> "json", error |-> msg]

\* anyhow!("{} is not whitelisted", params.vendor)
NotWhitelisted(vendor) == vendor \o Chars_NotWhitelisted

(***************************************************************************)
(* Ledger.  It keeps, for every transaction it accepted, the answers it    *)
(* gave to the confirmation polls of its signature.                        *)
(***************************************************************************)
\* The answers the ledger may give to the next poll of a transaction: it
\* reports "not confirmed" at most MaxPolls times.
ConfirmAnswers(tx) ==
  {"true", "err"} \cup (IF Len(tx) < MaxPolls THEN {"false"} ELSE {})

Call(op, sig, res) == [op |-> op, sig |-> sig, res |-> res]

(***************************************************************************)
(* Control flow of buy after each fallible step.                           *)
(***************************************************************************)
\* Variant: a blockhash fetch whose error is dropped.
BlockhashErrorIgnored(res) == "submit"
\* get_latest_blockhash()?
AfterBlockhash(res) == IF res = "ok" THEN "submit" ELSE "done"

\* Variant: a submission whose error is dropped.
SubmitErrorIgnored(res) == "confirm"
\* send_and_confirm_transaction(..)?
AfterSubmit(res) == IF res = "ok" THEN "confirm" ELSE "done"

\* Variants: a single poll instead of the loop; a loop without the negation;
\* a loop that takes a poll error for "not confirmed".
PollOnce(res) == "done"
NegationDropped(res) == IF res = "true" THEN "confirm" ELSE "done"
PollErrorAsNotConfirmed(res) == IF res = "true" THEN "done" ELSE "confirm"
\* while !confirm_transaction(&sig)? {}
AfterConfirm(res) == IF res = "false" THEN "confirm" ELSE "done"

\* The response when buy returns after a ledger call answered res: the error
\* that ? propagated, or Ok(()) at the end of the function.
LedgerOutcome(res) ==
  IF res = "err" THEN ErrorResponse(Chars_ClientError) ELSE OkEmpty

(***************************************************************************)
(* Tracing.  tracing_subscriber::fmt::init() installs the subscriber; the  *)
(* level it enables comes from the environment (RUST_LOG) and the build,   *)
(* and is the same for the life of the process.                            *)
(***************************************************************************)
LevelFilters == {"ERROR", "INFO"}

\* Whether the subscriber enables a span of level INFO, the level of the
\* spans that #[tracing::instrument] makes.
SpanEnabled(filter) == filter = "INFO"

NoSpan == [name |-> "none", fields |-> <<>>]

\* #[tracing::instrument(skip(state))] on buy: a span named after the function
\* with one field for every argument that is not skipped, here params.
Instrument(filter, params) ==
  IF SpanEnabled(filter)
  THEN [name |-> "buy", fields |-> <<[name |-> "params", value |-> params]>>]
  ELSE NoSpan

\* The decimal digits of a u64, as {} formats it.
RECURSIVE Decimal(_)
Decimal(n) ==
  LET d == <<"0", "1", "2", "3", "4", "5", "6", "7", "8", "9">>[(n % 10) + 1]
  IN  IF n < 10 THEN <<d>> ELSE Decimal(n \div 10) \o <<d>>

\* {:?} of a String whose characters need no escape: the string in quotes.
DebugStr(s) == <<"\"">> \o s \o <<"\"">>

Chars_lamports == <<"l","a","m","p","o","r","t","s",":"," ">>
Chars_vendor == <<","," ","v","e","n","d","o","r",":"," ">>
Chars_buyer_pair == <<","," ","b","u","y","e","r","_","p","a","i","r",":"," ">>

\* #[derive(Debug)] on BuyParams: the text a subscriber records for the field
\* params of the span.
DebugBuyParams(p) ==
  <<"B","u","y","P","a","r","a","m","s"," ","{"," ">>
    \o Chars_lamports \o Decimal(p.lamports)
    \o Chars_vendor \o DebugStr(p.vendor)
    \o Chars_buyer_pair \o DebugStr(p.buyer_pair)
    \o <<" ", "}">>

\* The text recorded for a span: its name and every field, as name=value.
SpanText(span) ==
  IF span.fields = <<>> THEN <<>>
  ELSE <<"p","a","r","a","m","s","=">> \o DebugBuyParams(span.fields[1].value)

(***************************************************************************)
(* Initial state: main() builds an empty registry and a fresh client.      *)
(***************************************************************************)
Init ==
  /\ vendors = <<>>
  /\ lock = [readers |-> 0, writer |-> FALSE]
  /\ buys = <<>>
  /\ lists = <<>>
  /\ inserts = <<>>
  /\ ledger = <<>>
  /\ subscriber \in LevelFilters

InsertsDone == {k \in 1..Len(inserts) : inserts[k].pc = "done"}
WalletIds(vs) == {vs[k].wallet_id : k \in 1..Len(vs)}

(***************************************************************************)
(* POST /vendors: insert.                                                  *)
(*   sequential: every earlier insert had completed when this one arrived  *)
(*   (history, read by no action).                                         *)
(***************************************************************************)
InsertCall(v) ==
  /\ Len(inserts) < MaxInserts
  /\ inserts' = Append(inserts,
       [input |-> v, pc |-> "write", response |-> NoResponse,
        sequential |-> InsertsDone = 1..Len(inserts)])
  /\ UNCHANGED <<subscriber, vendors, lock, buys, lists, ledger>>

\* vendors.write().unwrap()
InsertWrite(i) ==
  /\ inserts[i].pc = "write"
  /\ CanWrite(lock)
  /\ lock' = WriteGuard(lock)
  /\ inserts' = [inserts EXCEPT ![i].pc = "push"]
  /\ UNCHANGED <<subscriber, vendors, buys, lists, ledger>>

\* .push(input); the guard drops at the end of the statement and the handler
\* returns (), which is 200 with an empty body.
InsertPush(i) ==
  /\ inserts[i].pc = "push"
  /\ vendors' = Push(vendors, inserts[i].input)
  /\ lock' = DropWriteGuard(lock)
  /\ inserts' = [inserts EXCEPT ![i].pc = "done", ![i].response = OkEmpty]
  /\ lists' = [k \in 1..Len(lists) |->
                 IF lists[k].pc = "clone"
                 THEN [lists[k] EXCEPT !.held = @ \cup {vendors'}]
                 ELSE lists[k]]
  /\ UNCHANGED <<subscriber, buys, ledger>>

(***************************************************************************)
(* GET /vendors: list.                                                     *)
(*   held: the states the registry held while the request held its read    *)
(*   guard; calls, quiet: the insert requests made, and whether all of     *)
(*   them had completed, when it took the guard; after: the list requests  *)
(*   that had completed by then (history, read by no action).              *)
(***************************************************************************)
ListArrive(n) ==
  /\ Len(lists) < n
  /\ lists' = Append(lists,
       [pc |-> "read", snap |-> <<>>, status |-> 0, result |-> <<>>,
        held |-> {}, calls |-> 0, quiet |-> FALSE, after |-> {}])
  /\ UNCHANGED <<subscriber, vendors, lock, buys, inserts, ledger>>

ListCall == ListArrive(MaxLists)

\* vendors.read().unwrap(), and the copy begins
ListRead(i) ==
  /\ lists[i].pc = "read"
  /\ CanRead(lock)
  /\ lock' = ReadGuard(lock)
  /\ lists' = [lists EXCEPT ![i].pc = "clone", ![i].snap = vendors,
                            ![i].held = {vendors},
                            ![i].calls = Len(inserts),
                            ![i].quiet = (InsertsDone = 1..Len(inserts)),
                            ![i].after =
                               {k \in 1..Len(lists) : lists[k].pc = "done"}]
  /\ UNCHANGED <<subscriber, vendors, buys, inserts, ledger>>

\* .clone() ends, the guard drops, and the handler returns Json(copy): 200.
ListClone(i) ==
  /\ lists[i].pc = "clone"
  /\ \E copy \in CloneResults(lists[i].snap, vendors) :
       lists' = [lists EXCEPT ![i].pc = "done", ![i].status = 200,
                              ![i].result = copy]
  /\ lock' = DropReadGuard(lock)
  /\ UNCHANGED <<subscriber, vendors, buys, inserts, ledger>>

(***************************************************************************)
(* POST /buy: buy.                                                         *)
(*   calls: the ledger calls the request made, in order;                   *)
(*   authWallets, authCompleted: the wallet_ids in the registry, and those *)
(*   of the completed inserts, at the authorization check (history, read   *)
(*   by no action).                                                        *)
(***************************************************************************)
BuyCall(p) ==
  /\ Len(buys) < MaxBuys
  /\ buys' = Append(buys,
       [params |-> p, pc |-> "read", response |-> NoResponse, sig |-> 0,
        calls |-> <<>>, checked |-> FALSE, authWallets |-> {},
        authCompleted |-> {}, span |-> Instrument(subscriber, p)])
  /\ UNCHANGED <<subscriber, vendors, lock, lists, inserts, ledger>>

\* state.vendors.read().unwrap()
BuyRead(i) ==
  /\ buys[i].pc = "read"
  /\ CanRead(lock)
  /\ lock' = ReadGuard(lock)
  /\ buys' = [buys EXCEPT ![i].pc = "check"]
  /\ UNCHANGED <<subscriber, vendors, lists, inserts, ledger>>

\* Variant: a guard bound to a variable of the function body, which lives
\* until the function returns.
BuyCheckKeepsGuard(i) ==
  /\ buys[i].pc = "check"
  /\ LET b == buys[i]
         found == Contains(BuyStateVendors(vendors), b.params.vendor)
         c == [b EXCEPT !.checked = TRUE,
                        !.authWallets = WalletIds(vendors),
                        !.authCompleted =
                           {inserts[k].input.wallet_id : k \in InsertsDone}]
     IN  buys' = [buys EXCEPT ![i] =
           IF found THEN [c EXCEPT !.pc = "resolve"]
           ELSE [c EXCEPT !.pc = "done",
                          !.response =
                             ErrorResponse(NotWhitelisted(b.params.vendor))]]
  /\ UNCHANGED <<subscriber, vendors, lock, lists, inserts, ledger>>

\* if !(..).iter().any(|v| v.wallet_id == params.vendor) { return Err(..) }
\* The guard is a temporary of the condition and drops when it is evaluated.
BuyCheck(i) ==
  /\ buys[i].pc = "check"
  /\ lock' = DropReadGuard(lock)
  /\ LET b == buys[i]
         found == Contains(BuyStateVendors(vendors), b.params.vendor)
         c == [b EXCEPT !.checked = TRUE,
                        !.authWallets = WalletIds(vendors),
                        !.authCompleted =
                           {inserts[k].input.wallet_id : k \in InsertsDone}]
     IN  buys' = [buys EXCEPT ![i] =
           IF found THEN [c EXCEPT !.pc = "resolve"]
           ELSE [c EXCEPT !.pc = "done",
                          !.response =
                             ErrorResponse(NotWhitelisted(b.params.vendor))]]
  /\ UNCHANGED <<subscriber, vendors, lists, inserts, ledger>>

\* let from_keypair = Keypair::from_base58_string(&params.buyer_pair);
\* let to = Pubkey::from_str(&params.vendor)?;
\* Two steps without effect outside the request.  A panic of the first
\* unwinds the handler's task and the request gets no response; the second
\* is not reached then.
BuyResolve(i) ==
  /\ buys[i].pc = "resolve"
  /\ LET from_keypair == Parsed[buys[i].params].from_keypair
         to == Parsed[buys[i].params].to
     IN  buys' = [buys EXCEPT ![i] =
           IF from_keypair.panic THEN [@ EXCEPT !.pc = "panicked"]
           ELSE IF to.ok THEN [@ EXCEPT !.pc = "blockhash"]
           ELSE [@ EXCEPT !.pc = "done", !.response = ErrorResponse(to.err)]]
  /\ UNCHANGED <<subscriber, vendors, lock, lists, inserts, ledger>>

\* state.client.get_latest_blockhash()? : the argument of transfer(..) that is
\* evaluated before the submission.
BuyBlockhash(i) ==
  /\ buys[i].pc = "blockhash"
  /\ \E res \in {"ok", "err"} :
       buys' = [buys EXCEPT ![i] =
         [@ EXCEPT !.calls = Append(@, Call("get_latest_blockhash", 0, res)),
                   !.pc = AfterBlockhash(res),
                   !.response = IF AfterBlockhash(res) = "done"
                                THEN LedgerOutcome(res) ELSE @]]
  /\ UNCHANGED <<subscriber, vendors, lock, lists, inserts, ledger>>

\* let sig = state.client.send_and_confirm_transaction(&transfer(..))?;
\* An accepted transaction is recorded by the ledger under a new signature.
BuySubmit(i) ==
  /\ buys[i].pc = "submit"
  /\ \E res \in {"ok", "err"} :
       LET sig == IF res = "ok" THEN Len(ledger) + 1 ELSE 0
       IN  /\ ledger' = IF res = "ok" THEN Append(ledger, <<>>) ELSE ledger
           /\ buys' = [buys EXCEPT ![i] =
                [@ EXCEPT !.calls =
                             Append(@, Call("send_and_confirm_transaction", sig, res)),
                          !.sig = sig,
                          !.pc = AfterSubmit(res),
                          !.response = IF AfterSubmit(res) = "done"
                                       THEN LedgerOutcome(res) ELSE @]]
  /\ UNCHANGED <<subscriber, vendors, lock, lists, inserts>>

\* One iteration of while !state.client.confirm_transaction(&sig)? {}, and
\* Ok(()) when the loop ends.  A signature the ledger does not know (none was
\* returned) is never confirmed.
BuyConfirm(i) ==
  /\ buys[i].pc = "confirm"
  /\ LET sig == buys[i].sig
         known == sig \in 1..Len(ledger)
     IN  \E res \in IF known THEN ConfirmAnswers(ledger[sig]) ELSE {"false"} :
           /\ Len(buys[i].calls) < MaxPolls + 4
           /\ ledger' = IF known THEN [ledger EXCEPT ![sig] = Append(@, res)]
                        ELSE ledger
           /\ buys' = [buys EXCEPT ![i] =
                [@ EXCEPT !.calls = Append(@, Call("confirm_transaction", sig, res)),
                          !.pc = AfterConfirm(res),
                          !.response = IF AfterConfirm(res) = "done"
                                       THEN LedgerOutcome(res) ELSE @]]
  /\ UNCHANGED <<subscriber, vendors, lock, lists, inserts>>

Next ==
  \/ \E v \in VendorInputs : InsertCall(v)
  \/ \E i \in 1..Len(inserts) : InsertWrite(i)
  \/ \E i \in 1..Len(inserts) : InsertPush(i)
  \/ ListCall
  \/ \E i \in 1..Len(lists) : ListRead(i)
  \/ \E i \in 1..Len(lists) : ListClone(i)
  \/ \E p \in BuyInputs : BuyCall(p)
  \/ \E i \in 1..Len(buys) : BuyRead(i)
  \/ \E i \in 1..Len(buys) : BuyCheck(i)
  \/ \E i \in 1..Len(buys) : BuyResolve(i)
  \/ \E i \in 1..Len(buys) : BuyBlockhash(i)
  \/ \E i \in 1..Len(buys) : BuySubmit(i)
  \/ \E i \in 1..Len(buys) : BuyConfirm(i)

Spec == Init /\ [][Next]_vars

(***************************************************************************)
(* Scheduling.  Every request is a task of the tokio runtime that main()   *)
(* starts; a handler contains no .await, so a task that has begun a        *)
(* handler runs it to its end: a step that stays possible is taken.  A     *)
(* ledger call returns when the ledger answers.                            *)
(***************************************************************************)
InsertStep(i) ==
  i \in 1..Len(inserts) /\ (InsertWrite(i) \/ InsertPush(i))

ListStep(i) ==
  i \in 1..Len(lists) /\ (ListRead(i) \/ ListClone(i))

\* The steps of buy inside the process: the lock, the check, the parsing.
BuyLocalStep(i) ==
  i \in 1..Len(buys) /\ (BuyRead(i) \/ BuyCheck(i) \/ BuyResolve(i))

\* The steps of buy that end when the ledger answers.
BuyLedgerStep(i) ==
  i \in 1..Len(buys) /\ (BuyBlockhash(i) \/ BuySubmit(i) \/ BuyConfirm(i))

LocalFairness ==
  /\ \A i \in 1..MaxInserts : WF_vars(InsertStep(i))
  /\ \A i \in 1..MaxLists : WF_vars(ListStep(i))
  /\ \A i \in 1..MaxBuys : WF_vars(BuyLocalStep(i))

\* Every ledger call returns.
LedgerFairness == \A i \in 1..MaxBuys : WF_vars(BuyLedgerStep(i))

\* Next with at most FairInserts insert requests.
FairNext ==
  \/ \E v \in VendorInputs : Len(inserts) < FairInserts /\ InsertCall(v)
  \/ \E i \in 1..Len(inserts) : InsertWrite(i)
  \/ \E i \in 1..Len(inserts) : InsertPush(i)
  \/ ListCall
  \/ \E i \in 1..Len(lists) : ListRead(i)
  \/ \E i \in 1..Len(lists) : ListClone(i)
  \/ \E p \in BuyInputs : BuyCall(p)
  \/ \E i \in 1..Len(buys) : BuyRead(i)
  \/ \E i \in 1..Len(buys) : BuyCheck(i)
  \/ \E i \in 1..Len(buys) : BuyResolve(i)
  \/ \E i \in 1..Len(buys) : BuyBlockhash(i)
  \/ \E i \in 1..Len(buys) : BuySubmit(i)
  \/ \E i \in 1..Len(buys) : BuyConfirm(i)

\* Next with at most RegistryLists list requests and RegistryBuys buy
\* requests.
RegistryNext ==
  \/ \E v \in VendorInputs : InsertCall(v)
  \/ \E i \in 1..Len(inserts) : InsertWrite(i)
  \/ \E i \in 1..Len(inserts) : InsertPush(i)
  \/ ListArrive(RegistryLists)
  \/ \E i \in 1..Len(lists) : ListRead(i)
  \/ \E i \in 1..Len(lists) : ListClone(i)
  \/ \E p \in BuyInputs : Len(buys) < RegistryBuys /\ BuyCall(p)
  \/ \E i \in 1..Len(buys) : BuyRead(i)
  \/ \E i \in 1..Len(buys) : BuyCheck(i)
  \/ \E i \in 1..Len(buys) : BuyResolve(i)
  \/ \E i \in 1..Len(buys) : BuyBlockhash(i)
  \/ \E i \in 1..Len(buys) : BuySubmit(i)
  \/ \E i \in 1..Len(buys) : BuyConfirm(i)

RegistrySpec == Init /\ [][RegistryNext]_vars

\* Every task is scheduled and every ledger call returns.
FairSpec == Init /\ [][FairNext]_vars /\ LocalFairness /\ LedgerFairness

(***************************************************************************)
(* The runtime's threads.  #[tokio::main] builds a runtime with a fixed    *)
(* number of threads.  No handler contains an .await: the calls of         *)
(* RpcClient and of the RwLock are synchronous, so a request keeps the     *)
(* thread that began its handler until the handler returns or panics, and  *)
(* a request is taken up only when a thread is free.                       *)
(***************************************************************************)
InHandler(pc) == pc \notin {"done", "panicked"}

Busy ==
  Cardinality({i \in 1..Len(buys) : InHandler(buys[i].pc)})
    + Cardinality({i \in 1..Len(lists) : InHandler(lists[i].pc)})
    + Cardinality({i \in 1..Len(inserts) : InHandler(inserts[i].pc)})

FreeThread == Busy < RuntimeThreads

\* Next with a request taken up only by a free thread.
RuntimeNext ==
  \/ \E v \in VendorInputs : FreeThread /\ InsertCall(v)
  \/ \E i \in 1..Len(inserts) : InsertWrite(i)
  \/ \E i \in 1..Len(inserts) : InsertPush(i)
  \/ FreeThread /\ ListCall
  \/ \E i \in 1..Len(lists) : ListRead(i)
  \/ \E i \in 1..Len(lists) : ListClone(i)
  \/ \E p \in BuyInputs : FreeThread /\ BuyCall(p)
  \/ \E i \in 1..Len(buys) : BuyRead(i)
  \/ \E i \in 1..Len(buys) : BuyCheck(i)
  \/ \E i \in 1..Len(buys) : BuyResolve(i)
  \/ \E i \in 1..Len(buys) : BuyBlockhash(i)
  \/ \E i \in 1..Len(buys) : BuySubmit(i)
  \/ \E i \in 1..Len(buys) : BuyConfirm(i)

RuntimeSpec == Init /\ [][RuntimeNext]_vars


(***************************************************************************)
(* Properties.                                                             *)
(***************************************************************************)
BuyIds == 1..Len(buys)
ListIds == 1..Len(lists)

Terminal(b) == b.pc \in {"done", "panicked"}
Succeeded(b) == b.pc = "done" /\ b.response = OkEmpty
CallsOf(b, op) == {j \in 1..Len(b.calls) : b.calls[j].op = op}
NotWhitelistedResponse(b) ==
  [status |-> 500, body |-> "json",
   error |-> b.params.vendor \o Chars_NotWhitelisted]
ClientErrorResponse ==
  [status |-> 500, body |-> "json", error |-> Chars_ClientError]

\* C1: a buy request whose vendor equals no wallet_id of the registry at its
\* authorization check has failed with "<vendor> is not whitelisted" and has
\* made no ledger call.
Thm_C1_NotWhitelistedFailsFast ==
  \A i \in BuyIds :
    (buys[i].checked /\ buys[i].params.vendor \notin buys[i].authWallets)
      => /\ buys[i].pc = "done"
         /\ buys[i].response = NotWhitelistedResponse(buys[i])
         /\ buys[i].calls = <<>>

Wit_C1_NotWhitelistedFailsFast ==
  \E i \in BuyIds :
    /\ buys[i].checked
    /\ buys[i].params.vendor \notin buys[i].authWallets
    /\ buys[i].authWallets # {}
    /\ buys[i].response.status = 500
    /\ \E j \in BuyIds : j # i /\ buys[j].pc = "confirm"

\* C2: a buy request has succeeded only if its submission was accepted and a
\* later poll of the signature that submission returned answered "confirmed".
Thm_C2_SuccessOnlyAfterConfirmed ==
  \A i \in BuyIds :
    Succeeded(buys[i]) =>
      \E j, k \in 1..Len(buys[i].calls) :
        /\ j < k
        /\ buys[i].calls[j].op = "send_and_confirm_transaction"
        /\ buys[i].calls[j].res = "ok"
        /\ buys[i].calls[j].sig \in 1..Len(ledger)
        /\ buys[i].calls[k] =
             Call("confirm_transaction", buys[i].calls[j].sig, "true")
        /\ \E n \in 1..Len(ledger[buys[i].calls[j].sig]) :
             ledger[buys[i].calls[j].sig][n] = "true"

Wit_C2_SuccessOnlyAfterConfirmed ==
  \E i \in BuyIds :
    /\ Succeeded(buys[i])
    /\ \E k \in CallsOf(buys[i], "confirm_transaction") :
         buys[i].calls[k].res = "false"

\* C3: a buy request for a registered vendor whose buyer_pair is not a
\* well-formed credential ends with an error response (500 with an error
\* body), without any ledger call.
CE_C3_MalformedCredentialIsError ==
  \A i \in BuyIds :
    (/\ buys[i].checked
     /\ buys[i].params.vendor \in buys[i].authWallets
     /\ buys[i].pc # "resolve"
     /\ Keypair_from_base58_string(buys[i].params.buyer_pair).panic)
      => /\ buys[i].pc = "done"
         /\ buys[i].response.status = 500
         /\ buys[i].response.body = "json"
         /\ buys[i].calls = <<>>

\* C4: every buy request that ended without success ended with status 500
\* and a body {error: message}.
CE_C4_EveryFailureIs500 ==
  \A i \in BuyIds :
    (Terminal(buys[i]) /\ ~Succeeded(buys[i]))
      => /\ buys[i].response.status = 500
         /\ buys[i].response.body = "json"
         /\ buys[i].response.error # <<>>

\* C5: a buy request whose submission returned an error has failed with that
\* error, has made the submission call exactly once and has never polled for
\* confirmation.
Thm_C5_SubmissionFailureIsTerminal ==
  \A i \in BuyIds :
    (\E j \in 1..Len(buys[i].calls) :
       /\ buys[i].calls[j].op = "send_and_confirm_transaction"
       /\ buys[i].calls[j].res = "err")
      => /\ buys[i].pc = "done"
         /\ buys[i].response = ClientErrorResponse
         /\ Cardinality(CallsOf(buys[i], "send_and_confirm_transaction")) = 1
         /\ CallsOf(buys[i], "confirm_transaction") = {}

Wit_C5_SubmissionFailureIsTerminal ==
  \E i \in BuyIds :
    /\ buys[i].pc = "done"
    /\ Len(buys[i].calls) = 2
    /\ buys[i].calls[2] = Call("send_and_confirm_transaction", 0, "err")

\* C6: a buy request has succeeded exactly when the ledger, having answered
\* "not confirmed" k times and then "confirmed" for its transaction, was
\* polled k + 1 times by it.
Thm_C6_ExactlyKPlusOnePolls ==
  \A i \in BuyIds :
    Succeeded(buys[i]) =>
      /\ buys[i].sig \in 1..Len(ledger)
      /\ LET answers == ledger[buys[i].sig]
             k == Cardinality({n \in 1..Len(answers) : answers[n] = "false"})
         IN  /\ answers = Repeat("false", k) \o <<"true">>
             /\ Cardinality(CallsOf(buys[i], "confirm_transaction")) = k + 1

Wit_C6_ExactlyKPlusOnePolls ==
  \E i \in BuyIds :
    /\ Succeeded(buys[i])
    /\ ledger[buys[i].sig] = <<"false", "false", "true">>
    /\ Cardinality(CallsOf(buys[i], "confirm_transaction")) = 3

\* C7: a buy request one of whose confirmation polls returned an error has
\* failed with that error at that poll: the poll is its last ledger call and
\* its response is the error, never success.
Thm_C7_PollErrorIsTerminal ==
  \A i \in BuyIds :
    \A j \in 1..Len(buys[i].calls) :
      (buys[i].calls[j].op = "confirm_transaction" /\ buys[i].calls[j].res = "err")
        => /\ j = Len(buys[i].calls)
           /\ buys[i].pc = "done"
           /\ buys[i].response = ClientErrorResponse

Wit_C7_PollErrorIsTerminal ==
  \E i \in BuyIds :
    /\ buys[i].pc = "done"
    /\ Len(buys[i].calls) = 4
    /\ buys[i].calls[3].res = "false"
    /\ buys[i].calls[4].op = "confirm_transaction"
    /\ buys[i].calls[4].res = "err"

\* C8: a buy request for w whose authorization check came after an insert of
\* w completed is not refused as not whitelisted, and a buy request has
\* submitted only if w was in the registry at its authorization check.
Thm_C8_AuthorizationReadsLiveRegistry ==
  \A i \in BuyIds :
    /\ (buys[i].checked /\ buys[i].params.vendor \in buys[i].authCompleted)
         => buys[i].response # NotWhitelistedResponse(buys[i])
    /\ CallsOf(buys[i], "send_and_confirm_transaction") # {}
         => (buys[i].checked /\ buys[i].params.vendor \in buys[i].authWallets)

\* Buy j passed its check before w was inserted and is still in flight; buy i
\* for w passed its check after the insert and has submitted.
Wit_C8_AuthorizationReadsLiveRegistry ==
  \E i, j \in BuyIds :
    /\ i # j
    /\ buys[j].checked /\ buys[j].pc = "resolve"
    /\ buys[i].params.vendor \notin buys[j].authWallets
    /\ buys[i].checked
    /\ buys[i].params.vendor \in buys[i].authCompleted
    /\ CallsOf(buys[i], "send_and_confirm_transaction") # {}

\* C9: a list that took its read guard when every insert made so far had
\* completed, the inserts having been made one after the other, returns the
\* inserted records in the order of the calls.
Thm_C9_ListReturnsInsertsInOrder ==
  \A l \in ListIds :
    (/\ lists[l].pc = "done"
     /\ lists[l].quiet
     /\ \A k \in 1..lists[l].calls : inserts[k].sequential)
      => /\ lists[l].status = 200
         /\ lists[l].result = [k \in 1..lists[l].calls |-> inserts[k].input]

Wit_C9_ListReturnsInsertsInOrder ==
  \E l \in ListIds :
    /\ lists[l].pc = "done"
    /\ lists[l].quiet
    /\ lists[l].calls = 2
    /\ \A k \in 1..lists[l].calls : inserts[k].sequential
    /\ inserts[1].input # inserts[2].input
    /\ Len(lists[l].result) = 2

\* C10: the sequence a list returns is a state the registry held while the
\* list read it, all of whose records are complete.
Thm_C10_ListReturnsHeldState ==
  \A l \in ListIds :
    lists[l].pc = "done"
      => /\ lists[l].result \in lists[l].held
         /\ \A k \in 1..Len(lists[l].result) : lists[l].result[k] \in VendorInputs

\* A list returned one record while an insert made before it took its guard
\* had not yet written.
Wit_C10_ListReturnsHeldState ==
  \E l \in ListIds :
    /\ lists[l].pc = "done"
    /\ Len(lists[l].result) = 1
    /\ \E k \in 1..lists[l].calls : inserts[k].pc = "write"


\* The requests whose buyer_pair is the base58 text of a 64-byte keypair, and
\* those whose vendor is the base58 text of a 32-byte address.
WellFormedPair == {p \in BuyInputs : ~Keypair_from_base58_string(p.buyer_pair).panic}
AddressVendor ==
  {p \in BuyInputs :
     /\ Len(p.vendor) <= MAX_BASE58_LEN
     /\ Bs58Decode(p.vendor).ok
     /\ Len(Bs58Decode(p.vendor).bytes) = PUBKEY_BYTES}

\* The request was authorized for a vendor that a completed insert registered.
RegisteredAtCheck(b) ==
  b.checked /\ b.params.vendor \in b.authCompleted

\* Every ledger call the request made was accepted, and every poll answered
\* "confirmed".
LedgerAccepted(b) ==
  \A j \in 1..Len(b.calls) : b.calls[j].res \in {"ok", "true"}

\* C11 as stated: a buy request for a vendor registered through Insert, with
\* a well-formed buyer_pair, that has ended against a ledger that accepted
\* every call and confirmed at once, has succeeded with no error body.
CE_C11_RegisteredVendorBuySucceeds ==
  \A i \in BuyIds :
    (/\ RegisteredAtCheck(buys[i])
     /\ buys[i].params \in WellFormedPair
     /\ Terminal(buys[i])
     /\ LedgerAccepted(buys[i]))
      => Succeeded(buys[i])

\* C11, amended: when moreover the registered wallet_id is the base58 text of
\* a 32-byte address, the request is never ended by an error while the ledger
\* accepts its calls, and has succeeded with no error body once the first
\* poll answered "confirmed"; for any other registered wallet_id it has
\* failed with the address parser's message once it is past the parsing.
Thm_C11_RegisteredAddressBuySucceeds ==
  \A i \in BuyIds :
    (RegisteredAtCheck(buys[i]) /\ buys[i].params \in WellFormedPair)
      => IF buys[i].params \in AddressVendor
         THEN /\ LedgerAccepted(buys[i])
                   => /\ buys[i].pc # "panicked"
                      /\ buys[i].response \in {NoResponse, OkEmpty}
              /\ (LedgerAccepted(buys[i]) /\ Len(buys[i].calls) = 3)
                   => Succeeded(buys[i])
         ELSE buys[i].pc # "resolve"
                => /\ buys[i].pc = "done"
                   /\ buys[i].response.status = 500
                   /\ buys[i].response.error \in {Chars_WrongSize, Chars_Invalid}
                   /\ buys[i].calls = <<>>

Wit_C11_RegisteredAddressBuySucceeds ==
  /\ \E i \in BuyIds :
       /\ RegisteredAtCheck(buys[i])
       /\ buys[i].params \in WellFormedPair \cap AddressVendor
       /\ Len(buys[i].calls) = 3
       /\ LedgerAccepted(buys[i])
       /\ Succeeded(buys[i])
  /\ \E i \in BuyIds :
       /\ RegisteredAtCheck(buys[i])
       /\ buys[i].params \in WellFormedPair \ AddressVendor
       /\ buys[i].params.vendor = V1
       /\ buys[i].pc = "done"

\* Whether the text part occurs in the text whole.
Occurs(part, whole) ==
  \E k \in 0..(Len(whole) - Len(part)) :
    \A j \in 1..Len(part) : whole[k + j] = part[j]

\* C12 as stated: the buyer_pair of a buy request occurs neither in what the
\* subscriber records for the request's span nor in the error body of its
\* response.
CE_C12_CredentialNeverRecorded ==
  \A i \in BuyIds :
    /\ ~Occurs(buys[i].params.buyer_pair, SpanText(buys[i].span))
    /\ ~Occurs(buys[i].params.buyer_pair, buys[i].response.error)

\* The request passed the authorization check.
Authorized(b) == b.checked /\ b.params.vendor \in b.authWallets

\* C13: within one buy request the ledger is called only after the request
\* was authorized and both buyer_pair and vendor were parsed; the calls are one
\* blockhash fetch, then, only if it succeeded, one submission, then, only if
\* that succeeded, polls of the signature it returned.  The credential is
\* parsed before the address: an authorized request with a malformed
\* buyer_pair never ends with the address parser's error.  An authorized
\* request with a well-formed buyer_pair whose vendor is no address has
\* failed with the address parser's message and made no ledger call.
Thm_C13_StepsInOrder ==
  \A i \in BuyIds :
    LET b == buys[i]
        c == b.calls
    IN  /\ b.pc \in {"resolve", "panicked"} => Authorized(b) /\ c = <<>>
        /\ (c # <<>> \/ b.pc \in {"blockhash", "submit", "confirm"})
             => /\ Authorized(b)
                /\ b.params \in WellFormedPair \cap AddressVendor
        /\ b.pc = "blockhash" => c = <<>>
        /\ Len(c) >= 1 => c[1].op = "get_latest_blockhash"
        /\ b.pc = "submit" => Len(c) = 1 /\ c[1].res = "ok"
        /\ Len(c) >= 2 => /\ c[1].res = "ok"
                          /\ c[2].op = "send_and_confirm_transaction"
        /\ b.pc = "confirm" => Len(c) >= 2 /\ c[2].res = "ok"
        /\ \A j \in 3..Len(c) : /\ c[2].res = "ok"
                                 /\ c[j].op = "confirm_transaction"
                                 /\ c[j].sig = c[2].sig
        /\ (Authorized(b) /\ b.params \notin WellFormedPair
               /\ b.pc # "resolve")
             => b.pc = "panicked" /\ b.response = NoResponse
        /\ (Authorized(b) /\ b.params \in WellFormedPair \ AddressVendor
               /\ b.pc # "resolve")
             => /\ b.pc = "done"
                /\ b.response \in {ErrorResponse(Chars_WrongSize),
                                    ErrorResponse(Chars_Invalid)}
                /\ c = <<>>

Wit_C13_StepsInOrder ==
  /\ \E i \in BuyIds :
       /\ Len(buys[i].calls) >= 4
       /\ buys[i].calls[3].res = "false"
       /\ Terminal(buys[i])
  /\ \E i \in BuyIds :
       /\ Authorized(buys[i])
       /\ buys[i].params \in WellFormedPair \ AddressVendor
       /\ buys[i].response = ErrorResponse(Chars_WrongSize)

\* The request's submission was accepted and every poll so far was answered
\* "not confirmed".
NeverConfirmed(b) ==
  /\ Len(b.calls) >= 2
  /\ b.calls[2].res = "ok"
  /\ \A j \in 3..Len(b.calls) : b.calls[j].res = "false"

\* C14: when every step that stays possible is taken and every ledger call
\* returns, with the ledger answering "not confirmed" at most MaxPolls times
\* to the polls of one transaction, every buy request reaches a terminal
\* state; and as long as every poll was answered "not confirmed", however
\* many there were, the request is still polling and has no response.
Thm_C14_TerminationFollowsLedger ==
  /\ \A i \in 1..MaxBuys :
       (i \in BuyIds) ~> (i \in BuyIds /\ Terminal(buys[i]))
  /\ [](\A i \in BuyIds :
          NeverConfirmed(buys[i])
            => buys[i].pc = "confirm" /\ buys[i].response = NoResponse)

Wit_C14_TerminationFollowsLedger ==
  /\ \E i \in BuyIds :
       /\ NeverConfirmed(buys[i])
       /\ Len(buys[i].calls) = 2 + MaxPolls
       /\ buys[i].pc = "confirm"
  /\ \E i \in BuyIds :
       /\ Len(buys[i].calls) >= 4
       /\ Terminal(buys[i])

\* The request is in a ledger call or between two polls.
InLedger(b) == b.pc \in {"blockhash", "submit", "confirm"}

\* C15 as stated: the buy requests that are in a ledger call or in the poll
\* loop, however many, never keep another request from being taken up: when
\* the requests in their handlers are all such buy requests, a thread of the
\* runtime is free for the next buy, list or insert request.
CE_C15_BlockedBuysLeaveAThread ==
  (/\ \A i \in BuyIds : InHandler(buys[i].pc) => InLedger(buys[i])
   /\ \A i \in ListIds : ~InHandler(lists[i].pc)
   /\ \A i \in 1..Len(inserts) : ~InHandler(inserts[i].pc))
    => FreeThread

IsPrefix(a, b) ==
  Len(a) <= Len(b) /\ \A k \in 1..Len(a) : a[k] = b[k]

\* A step in which insert request i pushes its input.
Pushes(i) == inserts[i].pc = "push" /\ inserts'[i].pc = "done"

\* C16: every step leaves the registry as it is or is the push of an insert
\* request and appends that request's input; the steps of buy and of list
\* leave it as it is.  Hence the result of a list is a prefix of the registry
\* ever after and of the result of every list that took the lock after it
\* completed, and the vendor of a buy request that passed the authorization
\* check is in the registry ever after.
Thm_C16_RegistryOnlyGrowsAtEnd ==
  /\ [][/\ vendors' # vendors
             => \E i \in 1..Len(inserts) :
                  Pushes(i) /\ vendors' = Append(vendors, inserts[i].input)
         /\ (buys' # buys \/ lists' # lists) => vendors' = vendors]_vars
  /\ [](\A j \in ListIds :
          lists[j].pc = "done"
            => /\ IsPrefix(lists[j].result, vendors)
               /\ \A i \in lists[j].after :
                    IsPrefix(lists[i].result, lists[j].result))
  /\ [](\A i \in BuyIds :
          Authorized(buys[i])
            => Contains(BuyStateVendors(vendors), buys[i].params.vendor))

\* A list returned one vendor, a later list two, and an authorized buy
\* request has ended.
Wit_C16_RegistryOnlyGrowsAtEnd ==
  /\ \E j \in ListIds :
       /\ lists[j].pc = "done"
       /\ Len(lists[j].result) = 2
       /\ \E i \in lists[j].after : Len(lists[i].result) = 1
  /\ \E i \in BuyIds :
       /\ Authorized(buys[i])
       /\ Terminal(buys[i])
       /\ Len(vendors) = 2

\* C17: the push of an insert request lengthens the registry by exactly one,
\* keeps every stored vendor in its place and stores the input last, also
\* when its wallet_id is already stored; an insert request never gets another
\* response than 200 with an empty body; and a list made when all insert
\* requests so far had completed returns one record for each of them, equal
\* to its input.
Thm_C17_InsertAlwaysAppendsOne ==
  /\ [][\A i \in 1..Len(inserts) :
           Pushes(i)
             => /\ Len(vendors') = Len(vendors) + 1
                /\ IsPrefix(vendors, vendors')
                /\ vendors'[Len(vendors')] = inserts[i].input
                /\ inserts'[i].response = OkEmpty]_vars
  /\ [](/\ Len(vendors) = Cardinality(InsertsDone)
         /\ \A i \in 1..Len(inserts) :
              inserts[i].response =
                IF inserts[i].pc = "done" THEN OkEmpty ELSE NoResponse)
  /\ [](\A j \in ListIds :
          (lists[j].pc = "done" /\ lists[j].quiet)
            => /\ Len(lists[j].result) = lists[j].calls
               /\ \A i \in 1..lists[j].calls :
                    \E k \in 1..Len(lists[j].result) :
                      lists[j].result[k] = inserts[i].input)

\* Two inserts with the same wallet_id have completed, and a list made after
\* them returned both records.
Wit_C17_InsertAlwaysAppendsOne ==
  /\ Len(inserts) = 2
  /\ InsertsDone = {1, 2}
  /\ inserts[1].input.wallet_id = inserts[2].input.wallet_id
  /\ inserts[1].input # inserts[2].input
  /\ Len(vendors) = 2
  /\ \E j \in ListIds :
       /\ lists[j].pc = "done"
       /\ lists[j].quiet
       /\ lists[j].calls = 2
       /\ lists[j].result = <<inserts[1].input, inserts[2].input>>

\* The requests that hold a guard of the lock.
BuysReading == {i \in BuyIds : buys[i].pc = "check"}
ListsReading == {j \in ListIds : lists[j].pc = "clone"}
InsertsWriting == {i \in 1..Len(inserts) : inserts[i].pc = "push"}

\* C18: the read guards alive are those of the buy requests inside their
\* authorization check and of the list requests inside their copy, and the
\* write guard is alive only while an insert request pushes: a buy request
\* that is parsing, in a ledger call, polling, ended or panicked holds no
\* guard.  An insert request that waits for the lock waits for one of those
\* holders, never for a buy request past its check.
Thm_C18_GuardDroppedAfterCheck ==
  /\ lock.readers = Cardinality(BuysReading) + Cardinality(ListsReading)
  /\ lock.writer = (InsertsWriting # {})
  /\ Cardinality(InsertsWriting) <= 1
  /\ \A i \in 1..Len(inserts) :
       (inserts[i].pc = "write" /\ ~CanWrite(lock))
         => BuysReading \cup ListsReading \cup InsertsWriting # {}

\* An insert request holds the write guard while a buy request is polling and
\* another has panicked.
Wit_C18_GuardDroppedAfterCheck ==
  /\ InsertsWriting # {}
  /\ \E i \in BuyIds : buys[i].pc = "confirm" /\ Len(buys[i].calls) >= 3
  /\ \E i \in BuyIds : buys[i].pc = "panicked"

=============================================================================
